---------------------------- MODULE Spec2Model ----------------------------
(***************************************************************************)
(* A model of donut-dns (src/index.js): the answer merger, the upstream    *)
(* resolver (leaf requests, racing groups), proxyRequest and the alias     *)
(* handler.                                                                *)
(*                                                                         *)
(* Domain names are sequences of characters.  A response is a function     *)
(* from the sections it has ("answer", "authority", "additional") to the   *)
(* sequence of records of that section; a JavaScript object without a      *)
(* section is a function without that section in its domain.               *)
(***************************************************************************)
EXTENDS Integers, Sequences, FiniteSets, TLC

VARIABLES
    fake, real,     \* the arguments of alias(fake, real)
    upstream,       \* this.opt.upstream: the topology tree
    question0,      \* the question list the client sent
    resQuestion,    \* res.question: the records of that list, as they are now
    req,            \* the request object: [question |-> list]
    res,            \* the response object of the request
    wire,           \* the responses res.send() has emitted, in order
    pc,             \* position of the alias handler
    leaf,           \* per question, per leaf: the dns.Request and its res
    prom,           \* per question, per topology node: the promise
    doneOrder,      \* question indices in the order their lookups settled
    endOrder,       \* history of a direct lookup call: per question, the
                    \* leaves in the order their "end" fired
    mTarget,        \* direct use of mergeAnswer: the target before the call
    mSrc,           \* the partial responses r1..rn handed to it
    mSplit,         \* r1..r[mSplit] are passed as one array, the rest singly
    mOut,           \* the target after one call with all of them
    mTwo,           \* the target after a call with r1..r[n-1], then one with rn
    mPhase,
    hPred,          \* direct use of hook: the pattern handed to it
    hReq,           \* the request the registered matcher is then applied to
    hooks,          \* the matchers super.hook has registered
    hErr,           \* what hook threw (NoError: nothing)
    hOut,           \* what the registered matcher returned for hReq
    hPhase,
    nRec,           \* direct use of normRec: the record handed to it
    nOut,           \* what it returned or threw
    nPhase,
    cReq,           \* requests served at the same time: their request objects
    cRes,           \* the response object of each of them
    cLeaf,          \* per request, question and leaf: the dns.Request and res
    cProm,          \* per request, question and topology node: the promise
    cPc             \* the position of proxyRequest for each of them

asyncVars == <<fake, real, upstream, question0, resQuestion, req, res, wire,
               pc, leaf, prom, doneOrder, endOrder>>
mergeVars == <<mTarget, mSrc, mSplit, mOut, mTwo, mPhase>>
hookVars == <<hPred, hReq, hooks, hErr, hOut, hPhase>>
normVars == <<nRec, nOut, nPhase>>
concVars == <<cReq, cRes, cLeaf, cProm, cPc>>
vars == <<fake, real, upstream, question0, resQuestion, req, res, wire, pc, leaf,
          prom, doneOrder, endOrder, mTarget, mSrc, mSplit, mOut, mTwo, mPhase,
          hPred, hReq, hooks, hErr, hOut, hPhase, nRec, nOut, nPhase,
          cReq, cRes, cLeaf, cProm, cPc>>

---------------------------------------------------------------------------
(* Bounds *)

MaxNodes == 3        \* nodes of the upstream topology tree
MaxQuestions == 2    \* questions in one request
MaxMsgs == 2         \* "message" events one leaf request may deliver
MaxLookupMsgs == 3   \* "message" events the requests of one lookup may deliver
MaxSources == 3      \* partial responses given to one direct merge call
MaxInFlight == 4     \* leaf requests one served request may have in flight
MaxListLen == 2      \* patterns in one list of patterns handed to hook
MaxDepth == 2        \* nesting depth of the lists of patterns
MaxAlts == 2         \* elements of one list value of a record field
MaxRequests == 2     \* requests served at the same time

---------------------------------------------------------------------------
(* Records, responses, the answer merger *)

SectionNames == <<"answer", "authority", "additional">>
Sections == {SectionNames[i] : i \in 1..3}

NoSections == [k \in {} |-> <<>>]

\* What native-dns hands out as a packet: every section present.
Packet(an, au, ad) ==
    [k \in Sections |-> IF k = "answer" THEN an
                         ELSE IF k = "authority" THEN au ELSE ad]

\* _.flatten(resIn), one level deep: an argument is either one response
\* ([list |-> FALSE, one |-> r]) or an array of them ([list |-> TRUE, ...]).
RECURSIVE Flatten(_)
Flatten(resIn) ==
    IF resIn = <<>> THEN <<>>
    ELSE (IF Head(resIn).list THEN Head(resIn).items ELSE <<Head(resIn).one>>)
         \o Flatten(Tail(resIn))

One(r) == [list |-> FALSE, one |-> r]
Many(rs) == [list |-> TRUE, items |-> rs]

Reverse(s) == [i \in 1..Len(s) |-> s[Len(s) + 1 - i]]

\* The inner loop of mergeAnswer for one source ri:
\*   if (ri[k]) (resOut[k] = resOut[k] || []).push(...ri[k])
MergeOne(resOut, ri) ==
    [k \in (DOMAIN resOut) \cup (DOMAIN ri) |->
        IF k \in DOMAIN ri
        THEN (IF k \in DOMAIN resOut THEN resOut[k] ELSE <<>>) \o ri[k]
        ELSE resOut[k]]

RECURSIVE MergeAll(_, _)
MergeAll(resOut, ris) ==
    IF ris = <<>> THEN resOut
    ELSE MergeAll(MergeOne(resOut, Head(ris)), Tail(ris))

\* A merger that walks the flattened sources last to first.
mergeAnswer_reversed(resOut, resIn) == MergeAll(resOut, Reverse(Flatten(resIn)))

\* A merger that overwrites a section instead of appending to it.
mergeAnswer_overwrite(resOut, resIn) ==
    LET ris == Flatten(resIn)
    IN IF ris = <<>> THEN resOut
       ELSE [k \in (DOMAIN resOut) \cup (DOMAIN ris[Len(ris)]) |->
               IF k \in DOMAIN ris[Len(ris)] THEN ris[Len(ris)][k] ELSE resOut[k]]

mergeAnswer(resOut, resIn) == MergeAll(resOut, Flatten(resIn))

---------------------------------------------------------------------------
(* Name suffixes: reSuffix and String.prototype.replace *)

\* Characters of host names.  None of them is special in a replacement
\* string, and _.escapeRegExp makes the suffix a literal of the pattern.
Chars == {"a", "b"}

\* reSuffix(suff): the literal suff followed by the end-of-input anchor.
reSuffix_unanchored(suff) == [lit |-> suff, anchored |-> FALSE]

reSuffix(suff) == [lit |-> suff, anchored |-> TRUE]

\* The positions at which the regular expression matches in s.
MatchPositions(re, s) ==
    { i \in 1..(Len(s) + 1) :
        /\ i + Len(re.lit) - 1 <= Len(s)
        /\ SubSeq(s, i, i + Len(re.lit) - 1) = re.lit
        /\ re.anchored => i + Len(re.lit) - 1 = Len(s) }

Min(S) == CHOOSE x \in S : \A y \in S : x <= y

\* re.test(s)
Test(re, s) == MatchPositions(re, s) # {}

\* s.replace(re, rep): the leftmost match is replaced, once.
Replace(s, re, rep) ==
    IF MatchPositions(re, s) = {} THEN s
    ELSE LET i == Min(MatchPositions(re, s))
         IN SubSeq(s, 1, i - 1) \o rep \o SubSeq(s, i + Len(re.lit), Len(s))

EndsWith(s, suff) ==
    /\ Len(suff) <= Len(s)
    /\ \A j \in 1..Len(suff) : s[Len(s) - Len(suff) + j] = suff[j]

---------------------------------------------------------------------------
(* Record normalizer and matcher compiler *)

\* JavaScript values that occur in patterns and questions, tagged by type:
\*   [t |-> "num", v |-> n]   [t |-> "str", v |-> chars]   [t |-> "re", re |-> r]
\*   [t |-> "list", items |-> <<...>>]   [t |-> "obj", rec |-> [field |-> value]]
Num(n) == [t |-> "num", v |-> n]
Str(s) == [t |-> "str", v |-> s]
Re(r) == [t |-> "re", re |-> r]
List(xs) == [t |-> "list", items |-> xs]
Obj(r) == [t |-> "obj", rec |-> r]

QCLASS_IN == 1     \* NAME_TO_QCLASS.IN
QCLASS_CH == 3     \* NAME_TO_QCLASS.CH
QTYPE_A == 1       \* NAME_TO_QTYPE.A
QTYPE_NS == 2      \* NAME_TO_QTYPE.NS

\* The part of dns.consts the model uses, keyed by upper-case symbol.
lookupMap ==
    [type  |-> [sym \in {<<"A">>, <<"N", "S">>} |-> IF sym = <<"A">> THEN QTYPE_A ELSE QTYPE_NS],
     class |-> [sym \in {<<"I", "N">>, <<"C", "H">>} |->
                    IF sym = <<"I", "N">> THEN QCLASS_IN ELSE QCLASS_CH]]

LowerCase == <<"a", "b", "c", "h", "i", "n", "s">>
UpperCase == <<"A", "B", "C", "H", "I", "N", "S">>

toUpperCase(s) ==
    [i \in 1..Len(s) |->
        IF \E j \in 1..Len(LowerCase) : LowerCase[j] = s[i]
        THEN UpperCase[CHOOSE j \in 1..Len(LowerCase) : LowerCase[j] = s[i]]
        ELSE s[i]]

DigitChars == <<"0", "1", "2", "3", "4", "5", "6", "7", "8", "9">>

RECURSIVE NumToStr(_)
NumToStr(n) ==
    IF n < 10 THEN <<DigitChars[n + 1]>>
    ELSE NumToStr(n \div 10) \o <<DigitChars[(n % 10) + 1]>>

\* isNaN(v): Number(v) is NaN.  The empty string and digit strings coerce
\* to numbers; a regular expression does not.
isNaN(v) ==
    CASE v.t = "num" -> FALSE
      [] v.t = "str" -> \E i \in 1..Len(v.v) :
                            \A d \in 1..10 : DigitChars[d] # v.v[i]
      [] OTHER -> TRUE

castArray(v) == IF v.t = "list" THEN v.items ELSE <<v>>

\* The mapper of normRec for one element v of field key.  The result is
\* [ok |-> TRUE, v |-> value], or, when the mapper throws,
\* [ok |-> FALSE, kind, key, val]: kind "unknown" is the Error
\* "Unknown <key> <v>", kind "type" the TypeError of v.toUpperCase on a
\* value that is not a string.
NormValue_caseSensitive(key, v) ==
    IF ~isNaN(v) \/ key \notin DOMAIN lookupMap THEN [ok |-> TRUE, v |-> v]
    ELSE IF v.t = "str" /\ v.v \in DOMAIN lookupMap[key]
         THEN [ok |-> TRUE, v |-> Num(lookupMap[key][v.v])]
         ELSE [ok |-> FALSE, kind |-> IF v.t = "str" THEN "unknown" ELSE "type",
               key |-> key, val |-> v]

NormValue(key, v) ==
    IF ~isNaN(v) \/ key \notin DOMAIN lookupMap THEN [ok |-> TRUE, v |-> v]
    ELSE IF v.t = "str" /\ toUpperCase(v.v) \in DOMAIN lookupMap[key]
         THEN [ok |-> TRUE, v |-> Num(lookupMap[key][toUpperCase(v.v)])]
         ELSE [ok |-> FALSE, kind |-> IF v.t = "str" THEN "unknown" ELSE "type",
               key |-> key, val |-> v]

\* normRec(rec): every field becomes the list of its normalized elements;
\* the result is the mapper's [ok |-> FALSE, ...] when a mapper threw (with
\* several offending elements, one of them: the model does not keep the
\* insertion order of the fields).
normRec(rec) ==
    LET norm == [k \in DOMAIN rec |->
                    [i \in 1..Len(castArray(rec[k])) |->
                        NormValue(k, castArray(rec[k])[i])]]
        bad == UNION {{<<k, i>> : i \in {j \in 1..Len(norm[k]) : ~norm[k][j].ok}} :
                        k \in DOMAIN rec}
    IN IF bad = {}
       THEN [ok |-> TRUE,
             rec |-> [k \in DOMAIN rec |->
                        [i \in 1..Len(norm[k]) |-> norm[k][i].v]]]
       ELSE LET b == CHOOSE x \in bad : TRUE
            IN norm[b[1]][b[2]]

\* The value of field k of a question, tagged.
FieldOf(q, k) == IF k = "name" THEN Str(q[k]) ELSE Num(q[k])

ToStr(v) == IF v.t = "num" THEN NumToStr(v.v) ELSE v.v

\* (like instanceof RegExp && like.test(v)) || like === v
matchValue(v, like) ==
    \/ like.t = "re" /\ Test(like.re, ToStr(v))
    \/ like.t = v.t /\ like.t \in {"num", "str"} /\ like.v = v.v

matchValues(v, like) == \E i \in 1..Len(like) : matchValue(v, like[i])

\* Object.entries(like).some(...): one matching field is enough.
matchObject_anyField(obj, like) ==
    \E k \in DOMAIN like : matchValues(FieldOf(obj, k), like[k])

\* Object.entries(like).every(([k, v]) => matchValues(obj[k], v))
matchObject(obj, like) ==
    \A k \in DOMAIN like : matchValues(FieldOf(obj, k), like[k])

\* A predicate function handed to hook in place of a pattern.
Fn(f) == [t |-> "fn", fn |-> f]

\* Nothing was thrown.
NoError == [ok |-> TRUE]

\* The first element of a sequence of compilation results that threw.
FirstThrown(ms) == ms[Min({i \in 1..Len(ms) : ~ms[i].ok})]

\* makeMatcher(pred).  The result is the compiled matcher,
\*   [ok |-> TRUE, t |-> "fn", fn |-> f]        pred itself, a function
\*   [ok |-> TRUE, t |-> "some", preds |-> ms]  any of the compiled ms
\*   [ok |-> TRUE, t |-> "obj", rec |-> norm]   some question matches norm
\* or [ok |-> FALSE, ...], the error normRec threw while compiling.
RECURSIVE makeMatcher(_)

\* A string or regular expression compiled to { name: pred } only.
makeMatcher_nameOnly(pred) ==
    CASE pred.t = "fn" -> [ok |-> TRUE, t |-> "fn", fn |-> pred.fn]
      [] pred.t \in {"re", "str"} -> makeMatcher(Obj([name |-> pred]))
      [] pred.t = "list" ->
            LET preds == [i \in 1..Len(pred.items) |-> makeMatcher(pred.items[i])]
            IN IF \A i \in 1..Len(preds) : preds[i].ok
               THEN [ok |-> TRUE, t |-> "some", preds |-> preds]
               ELSE FirstThrown(preds)
      [] OTHER ->
            LET norm == normRec(pred.rec)
            IN IF norm.ok THEN [ok |-> TRUE, t |-> "obj", rec |-> norm.rec]
               ELSE norm

\* A list compiled to its sub-patterns that compile, the others dropped.
makeMatcher_skipBad(pred) ==
    CASE pred.t = "fn" -> [ok |-> TRUE, t |-> "fn", fn |-> pred.fn]
      [] pred.t \in {"re", "str"} ->
            makeMatcher(Obj([class |-> Num(1), name |-> pred]))
      [] pred.t = "list" ->
            LET preds == [i \in 1..Len(pred.items) |-> makeMatcher(pred.items[i])]
            IN [ok |-> TRUE, t |-> "some",
                preds |-> SelectSeq(preds, LAMBDA m : m.ok)]
      [] OTHER ->
            LET norm == normRec(pred.rec)
            IN IF norm.ok THEN [ok |-> TRUE, t |-> "obj", rec |-> norm.rec]
               ELSE norm

makeMatcher(pred) ==
    CASE pred.t = "fn" -> [ok |-> TRUE, t |-> "fn", fn |-> pred.fn]
      [] pred.t \in {"re", "str"} ->
            makeMatcher(Obj([class |-> Num(1), name |-> pred]))
      [] pred.t = "list" ->
            LET preds == [i \in 1..Len(pred.items) |-> makeMatcher(pred.items[i])]
            IN IF \A i \in 1..Len(preds) : preds[i].ok
               THEN [ok |-> TRUE, t |-> "some", preds |-> preds]
               ELSE FirstThrown(preds)
      [] OTHER ->
            LET norm == normRec(pred.rec)
            IN IF norm.ok THEN [ok |-> TRUE, t |-> "obj", rec |-> norm.rec]
               ELSE norm

\* The predicate functions the model hands to hook: what each returns.
CallFn(f, request) == f = "always"

\* The matcher makeMatcher returns, applied to a request:
\*   pred(req, res)
\*   preds.some(p => p(req, res))
\*   req.question.some(q => matchObject(q, norm))
RECURSIVE RunMatcher(_, _)
RunMatcher(m, request) ==
    CASE m.t = "fn" -> CallFn(m.fn, request)
      [] m.t = "some" -> \E i \in 1..Len(m.preds) : RunMatcher(m.preds[i], request)
      [] OTHER -> \E i \in 1..Len(request.question) :
                        matchObject(request.question[i], m.rec)

---------------------------------------------------------------------------
(* Upstream topology and promises *)

\* A topology is a tree over the nodes 1..n: node 1 is this.opt.upstream,
\* parent[c] is the array that holds c (0 for the root), isLeaf[c] tells a
\* server from an array.  The children of an array are ordered by number.
Tree(parent, isLeaf) == [n |-> Len(parent), parent |-> parent, isLeaf |-> isLeaf]

Nodes(t) == 1..t.n
Children(t, g) == {c \in Nodes(t) : t.parent[c] = g}
Leaves(t) == {c \in Nodes(t) : t.isLeaf[c]}

Topologies ==
    UNION { { Tree(p, lf) :
                p \in { q \in [1..n -> 0..(n - 1)] :
                          q[1] = 0 /\ \A c \in 2..n : q[c] \in 1..(c - 1) },
                lf \in [1..n -> BOOLEAN] } : n \in 1..MaxNodes }

\* Only an array has children.
WellFormed(t) == \A c \in Nodes(t) : t.isLeaf[c] => Children(t, c) = {}

Pending == [st |-> "pending", val |-> NoSections, err |-> "none"]

\* Promise n of one lookup settles; P maps the nodes to their promises.
\* A settled promise stays as it is.  Promise.any over the children of the
\* parent array: the first fulfilment fulfils it with the same value, the
\* last rejection rejects it with an aggregate error.
RECURSIVE Settle(_, _, _, _, _, _)

\* A promise that takes every settlement, also after its first one.
Settle_resettle(t, P, n, st, val, err) ==
    LET P1 == [P EXCEPT ![n] = [st |-> st, val |-> val, err |-> err]]
        g == t.parent[n]
    IN IF g = 0 THEN P1
       ELSE IF st = "fulfilled"
            THEN Settle(t, P1, g, "fulfilled", val, "none")
            ELSE IF \A c \in Children(t, g) : P1[c].st = "rejected"
                 THEN Settle(t, P1, g, "rejected", NoSections, "aggregate")
                 ELSE P1

Settle(t, P, n, st, val, err) ==
    IF P[n].st # "pending" THEN P
    ELSE LET P1 == [P EXCEPT ![n] = [st |-> st, val |-> val, err |-> err]]
             g == t.parent[n]
         IN IF g = 0 THEN P1
            ELSE IF st = "fulfilled"
                 THEN Settle(t, P1, g, "fulfilled", val, "none")
                 ELSE IF \A c \in Children(t, g) : P1[c].st = "rejected"
                      THEN Settle(t, P1, g, "rejected", NoSections, "aggregate")
                      ELSE P1

\* Promise.any of an empty array rejects at once.
RECURSIVE RejectEmpty(_, _, _)
RejectEmpty(t, P, n) ==
    IF n = 0 THEN P
    ELSE RejectEmpty(t,
            IF ~t.isLeaf[n] /\ Children(t, n) = {}
            THEN Settle(t, P, n, "rejected", NoSections, "range")
            ELSE P,
            n - 1)

\* The promises right after lookup(question) has returned.
NewLookup(t) == RejectEmpty(t, [n \in Nodes(t) |-> Pending], t.n)

\* The dns.Request of one leaf and the res object of its promise executor.
NewRequest == [msgs |-> 0, errd |-> FALSE, ended |-> FALSE, sends |-> 1,
               res |-> NoSections]

---------------------------------------------------------------------------
(* The leaf branch of lookup: the "message" and "end" listeners *)

RR(name, data) == [name |-> name, data |-> data]

\* The k-th message server n sends back for question qi, asked as `name`:
\* a packet with one record in every section.
Reply(qi, n, k, name) ==
    Packet(<<RR(name, <<qi, n, k, "answer">>)>>,
           <<RR(name, <<qi, n, k, "authority">>)>>,
           <<RR(name, <<qi, n, k, "additional">>)>>)

\* A "message" listener that merges and never rejects.
OnMessage_noReject(t, L, P, n, err, hasMsg, msg) ==
    [leaf |-> [L EXCEPT ![n].msgs = @ + 1,
                        ![n].errd = @ \/ err,
                        ![n].res = IF hasMsg THEN mergeAnswer(@, <<One(msg)>>)
                                   ELSE @],
     prom |-> P]

\* A "message" listener that sends the request again on an error.
OnMessage_retry(t, L, P, n, err, hasMsg, msg) ==
    [leaf |-> [L EXCEPT ![n].msgs = @ + 1,
                        ![n].sends = IF err THEN @ + 1 ELSE @,
                        ![n].res = IF hasMsg /\ ~err THEN mergeAnswer(@, <<One(msg)>>)
                                   ELSE @],
     prom |-> P]

\* .on("message", (err, msg) => { if (err) reject(err);
\*                                this.mergeAnswer(res, msg); })
\* L and P are the requests and promises of one lookup.  With msg
\* undefined (hasMsg false) mergeAnswer throws after the reject and res
\* stays as it is.
OnMessage(t, L, P, n, err, hasMsg, msg) ==
    [leaf |-> [L EXCEPT ![n].msgs = @ + 1,
                        ![n].errd = @ \/ err,
                        ![n].res = IF hasMsg THEN mergeAnswer(@, <<One(msg)>>)
                                   ELSE @],
     prom |-> IF err THEN Settle(t, P, n, "rejected", NoSections, "transport")
              ELSE P]

\* An "end" listener that rejects a request that got no message.
OnEnd_rejectSilent(t, L, P, n) ==
    [leaf |-> [L EXCEPT ![n].ended = TRUE],
     prom |-> IF L[n].msgs = 0
              THEN Settle(t, P, n, "rejected", NoSections, "timeout")
              ELSE Settle(t, P, n, "fulfilled", L[n].res, "none")]

\* .on("end", () => resolve(res))
OnEnd(t, L, P, n) ==
    [leaf |-> [L EXCEPT ![n].ended = TRUE],
     prom |-> Settle(t, P, n, "fulfilled", L[n].res, "none")]

Root == 1

Settled(P) == P[Root].st # "pending"

\* doneOrder after the promises of lookup qi went from P to P1.
NoteDone(qi, P, P1) ==
    IF ~Settled(P) /\ Settled(P1) THEN Append(doneOrder, qi) ELSE doneOrder

\* The variables a transport event of request (qi, n) changes, given the
\* outcome r of the listeners it ran; ends tells whether the end is to be
\* noted in endOrder.
Deliver(qi, n, r, ends) ==
    /\ leaf' = [leaf EXCEPT ![qi] = r.leaf]
    /\ prom' = [prom EXCEPT ![qi] = r.prom]
    /\ doneOrder' = NoteDone(qi, prom[qi], r.prom)
    /\ endOrder' = IF ends THEN [endOrder EXCEPT ![qi] = Append(@, n)]
                   ELSE endOrder
    /\ UNCHANGED <<fake, real, upstream, question0, resQuestion, req, res, wire, pc>>
    /\ UNCHANGED <<mergeVars, hookVars, normVars, concVars>>

Open(qi, n) ==
    /\ qi \in 1..Len(leaf)
    /\ n \in DOMAIN leaf[qi]
    /\ ~leaf[qi][n].ended

Asked(qi) == req.question[qi].name

\* The "message" events the requests in L have delivered.
RECURSIVE Delivered(_, _)
Delivered(L, ns) ==
    IF ns = {} THEN 0
    ELSE LET n == CHOOSE x \in ns : TRUE
         IN L[n].msgs + Delivered(L, ns \ {n})

MayDeliver(qi, n) ==
    /\ leaf[qi][n].msgs < MaxMsgs
    /\ Delivered(leaf[qi], DOMAIN leaf[qi]) < MaxLookupMsgs

\* One "message" event without error; the request stays open.
LeafMessage(qi, n) ==
    /\ Open(qi, n)
    /\ MayDeliver(qi, n)
    /\ Deliver(qi, n,
               OnMessage(upstream, leaf[qi], prom[qi], n, FALSE, TRUE,
                         Reply(qi, n, leaf[qi][n].msgs + 1, Asked(qi))),
               FALSE)

\* One "message" event with an error, with or without a packet.
LeafError(qi, n) ==
    /\ Open(qi, n)
    /\ MayDeliver(qi, n)
    /\ \E hasMsg \in BOOLEAN :
         Deliver(qi, n,
                 OnMessage(upstream, leaf[qi], prom[qi], n, TRUE, hasMsg,
                           Reply(qi, n, leaf[qi][n].msgs + 1, Asked(qi))),
                 FALSE)

\* The "end" event after at least one message.
LeafEnd(qi, n) ==
    /\ Open(qi, n)
    /\ leaf[qi][n].msgs > 0
    /\ Deliver(qi, n, OnEnd(upstream, leaf[qi], prom[qi], n), TRUE)

\* The timeout expires before any message: "timeout", then "end".
LeafTimeout(qi, n) ==
    /\ Open(qi, n)
    /\ leaf[qi][n].msgs = 0
    /\ Deliver(qi, n, OnEnd(upstream, leaf[qi], prom[qi], n), TRUE)

\* native-dns delivers its one message and the end in one call
\* (Request.handle): the reply of a server that answers.
LeafAnswer(qi, n) ==
    /\ Open(qi, n)
    /\ leaf[qi][n].msgs = 0
    /\ LET r == OnMessage(upstream, leaf[qi], prom[qi], n, FALSE, TRUE,
                          Reply(qi, n, 1, Asked(qi)))
       IN Deliver(qi, n, OnEnd(upstream, r.leaf, r.prom, n), FALSE)

\* The same for a reply that carries an error and no packet.
LeafFail(qi, n) ==
    /\ Open(qi, n)
    /\ leaf[qi][n].msgs = 0
    /\ LET r == OnMessage(upstream, leaf[qi], prom[qi], n, TRUE, FALSE,
                          NoSections)
       IN Deliver(qi, n, OnEnd(upstream, r.leaf, r.prom, n), FALSE)

\* The same for a server that never replies (Request.handleTimeout).
LeafSilent(qi, n) ==
    /\ Open(qi, n)
    /\ leaf[qi][n].msgs = 0
    /\ Deliver(qi, n, OnEnd(upstream, leaf[qi], prom[qi], n), FALSE)

---------------------------------------------------------------------------
(* lookup, proxyRequest and the alias handler *)

\* lookup(question) for every question of qs: a promise per node and a
\* request sent to every leaf, all before any reply is handled.
StartLookups(qs) ==
    /\ prom' = [i \in 1..Len(qs) |-> NewLookup(upstream)]
    /\ leaf' = [i \in 1..Len(qs) |-> [n \in Leaves(upstream) |-> NewRequest]]
    /\ doneOrder' = SelectSeq([i \in 1..Len(qs) |-> i],
                              LAMBDA i : Settled(NewLookup(upstream)))
    /\ endOrder' = [i \in 1..Len(qs) |-> <<>>]

\* The array Promise.map fulfils with, were it in completion order.
MapResults_completion ==
    [i \in 1..Len(doneOrder) |-> prom[doneOrder[i]][Root].val]

\* The array Promise.map(req.question, lookup) fulfils with: the result of
\* every lookup at the index of its question.
MapResults == [i \in 1..Len(prom) |-> prom[i][Root].val]

\* Promise.map fulfilling with the first result that comes in.
MapFulfilled_first ==
    \E i \in 1..Len(prom) : prom[i][Root].st = "fulfilled"

MapFulfilled ==
    \A i \in 1..Len(prom) : prom[i][Root].st = "fulfilled"

MapRejected ==
    \E i \in 1..Len(prom) : prom[i][Root].st = "rejected"

\* A rewrite by a for loop that sets q.name on the records of the list.
RewriteQuestions_inPlace(qs) ==
    LET renamed == [i \in 1..Len(qs) |->
                        [qs[i] EXCEPT !.name = Replace(qs[i].name, reSuffix(fake), real)]]
    IN [list |-> renamed, held |-> renamed]

\* The rewrite of req.question by the handler.  list: the new value of
\* req.question; held: what the records of the old list hold afterwards,
\* for whoever else refers to them.
\*   req.question.map(q => ({ ...q, name: q.name.replace(fm, real) }))
RewriteQuestions(qs) ==
    [list |-> [i \in 1..Len(qs) |->
                [qs[i] EXCEPT !.name = Replace(qs[i].name, reSuffix(fake), real)]],
     held |-> qs]

\* The matcher alias(fake, real) registers its handler behind.
AliasMatcher == makeMatcher(Re(reSuffix(fake)))

\* The dispatcher finds the request matched and calls the handler, which
\* rewrites the questions and calls proxyRequest, up to its await.
AliasHandle ==
    /\ pc = "start"
    /\ RunMatcher(AliasMatcher, req)
    /\ LET rw == RewriteQuestions(req.question)
       IN /\ req' = [question |-> rw.list]
          /\ resQuestion' = rw.held
    /\ StartLookups(req.question)
    /\ pc' = "awaitMap"
    /\ UNCHANGED <<fake, real, upstream, question0, res, wire>>
    /\ UNCHANGED <<mergeVars, hookVars, normVars, concVars>>

\* The dispatcher finds the request not matched: the handler is not called.
NoMatch ==
    /\ pc = "start"
    /\ ~RunMatcher(AliasMatcher, req)
    /\ pc' = "unmatched"
    /\ UNCHANGED <<fake, real, upstream, question0, resQuestion, req, res, wire, leaf,
                   prom, doneOrder, endOrder>>
    /\ UNCHANGED <<mergeVars, hookVars, normVars, concVars>>

\* proxyRequest resumes with the array of results and merges it.
ProxyResolve ==
    /\ pc = "awaitMap"
    /\ MapFulfilled
    /\ res' = mergeAnswer(res, <<Many(MapResults)>>)
    /\ pc' = "proxied"
    /\ UNCHANGED <<fake, real, upstream, question0, resQuestion, req, wire, leaf, prom,
                   doneOrder, endOrder>>
    /\ UNCHANGED <<mergeVars, hookVars, normVars, concVars>>

\* A proxyRequest that merges the results it has before it throws.
ProxyReject_partial ==
    /\ pc = "awaitMap"
    /\ MapRejected
    /\ res' = mergeAnswer(res, <<Many(MapResults)>>)
    /\ pc' = "proxyFailed"
    /\ UNCHANGED <<fake, real, upstream, question0, resQuestion, req, wire, leaf, prom,
                   doneOrder, endOrder>>
    /\ UNCHANGED <<mergeVars, hookVars, normVars, concVars>>

\* Promise.map rejected: proxyRequest throws out of its await.
ProxyReject ==
    /\ pc = "awaitMap"
    /\ MapRejected
    /\ pc' = "proxyFailed"
    /\ UNCHANGED <<fake, real, upstream, question0, resQuestion, req, res, wire, leaf,
                   prom, doneOrder, endOrder>>
    /\ UNCHANGED <<mergeVars, hookVars, normVars, concVars>>

\* The handler resumes after proxyRequest: renames the answers, sends.
AliasSend ==
    /\ pc = "proxied"
    /\ res' = [res EXCEPT !["answer"] =
                 [i \in 1..Len(res["answer"]) |->
                    RR(Replace(res["answer"][i].name, reSuffix(real), fake),
                       res["answer"][i].data)]]
    /\ wire' = Append(wire, res')
    /\ pc' = "sent"
    /\ UNCHANGED <<fake, real, upstream, question0, resQuestion, req, leaf, prom,
                   doneOrder, endOrder>>
    /\ UNCHANGED <<mergeVars, hookVars, normVars, concVars>>

\* The handler's await throws: the lines after it never run.
AliasThrow ==
    /\ pc = "proxyFailed"
    /\ pc' = "failed"
    /\ UNCHANGED <<fake, real, upstream, question0, resQuestion, req, res, wire, leaf,
                   prom, doneOrder, endOrder>>
    /\ UNCHANGED <<mergeVars, hookVars, normVars, concVars>>

\* A direct call of lookup(question) for the one question of the request.
Lookup ==
    /\ pc = "call"
    /\ StartLookups(req.question)
    /\ pc' = "lookup"
    /\ UNCHANGED <<fake, real, upstream, question0, resQuestion, req, res, wire>>
    /\ UNCHANGED <<mergeVars, hookVars, normVars, concVars>>

\* lookupInto(question, res) resumes with the result of its lookup and
\* merges it into res.
LookupIntoResolve ==
    /\ pc = "lookup"
    /\ prom[1][Root].st = "fulfilled"
    /\ res' = mergeAnswer(res, <<One(prom[1][Root].val)>>)
    /\ pc' = "merged"
    /\ UNCHANGED <<fake, real, upstream, question0, resQuestion, req, wire, leaf, prom,
                   doneOrder, endOrder>>
    /\ UNCHANGED <<mergeVars, hookVars, normVars, concVars>>

\* The lookup rejected: lookupInto throws out of its await.
LookupIntoReject ==
    /\ pc = "lookup"
    /\ prom[1][Root].st = "rejected"
    /\ pc' = "lookupFailed"
    /\ UNCHANGED <<fake, real, upstream, question0, resQuestion, req, res, wire, leaf,
                   prom, doneOrder, endOrder>>
    /\ UNCHANGED <<mergeVars, hookVars, normVars, concVars>>

---------------------------------------------------------------------------
(* Direct use of mergeAnswer *)

X == RR(<<"a">>, <<1, 1, 1, "x">>)
Y == RR(<<"b">>, <<2, 1, 1, "y">>)

\* Responses whose sections may be missing, empty or repeat a record of
\* another response.
PartialResponses ==
    { [k \in S |-> c[k]] :
        S \in SUBSET Sections,
        c \in [answer : {<<X>>, <<Y, X>>}, authority : {<<>>},
               additional : {<<Y>>}] }

Targets == {NoSections, Packet(<<>>, <<>>, <<>>), Packet(<<Y>>, <<X>>, <<>>)}

SeqsUpTo(S, n) == UNION { [1..m -> S] : m \in 0..n }

\* The arguments after the target: r1..r[split] as one array, then the
\* others one by one.
MergeArgs(rs, split) ==
    (IF split = 0 THEN <<>> ELSE <<Many(SubSeq(rs, 1, split))>>)
    \o [i \in 1..(Len(rs) - split) |-> One(rs[split + i])]

MergeCall ==
    /\ mPhase = "args"
    /\ mOut' = mergeAnswer(mTarget, MergeArgs(mSrc, mSplit))
    /\ mPhase' = "once"
    /\ UNCHANGED <<mTarget, mSrc, mSplit, mTwo>>
    /\ UNCHANGED <<asyncVars, hookVars, normVars, concVars>>

MergeInTwo ==
    /\ mPhase = "once"
    /\ Len(mSrc) > 0
    /\ mTwo' = mergeAnswer(
                  mergeAnswer(mTarget, <<Many(SubSeq(mSrc, 1, Len(mSrc) - 1))>>),
                  <<One(mSrc[Len(mSrc)])>>)
    /\ mPhase' = "twice"
    /\ UNCHANGED <<mTarget, mSrc, mSplit, mOut>>
    /\ UNCHANGED <<asyncVars, hookVars, normVars, concVars>>

---------------------------------------------------------------------------
(* hook called directly with a pattern *)

\* hook(pred, ...middleware): makeMatcher(pred) is an argument of
\* super.hook, so when it throws nothing is registered.
Hook ==
    /\ hPhase = "args"
    /\ LET m == makeMatcher(hPred)
       IN IF m.ok
          THEN /\ hooks' = Append(hooks, m)
               /\ hErr' = NoError
               /\ hPhase' = "hooked"
          ELSE /\ hooks' = hooks
               /\ hErr' = m
               /\ hPhase' = "threw"
    /\ UNCHANGED <<hPred, hReq, hOut>>
    /\ UNCHANGED <<asyncVars, mergeVars, normVars, concVars>>

\* The framework applies the registered matcher to a request.
Dispatch ==
    /\ hPhase = "hooked"
    /\ hOut' = RunMatcher(hooks[1], hReq)
    /\ hPhase' = "matched"
    /\ UNCHANGED <<hPred, hReq, hooks, hErr>>
    /\ UNCHANGED <<asyncVars, mergeVars, normVars, concVars>>

---------------------------------------------------------------------------
(* normRec called directly with a record *)

Normalize ==
    /\ nPhase = "args"
    /\ nOut' = normRec(nRec)
    /\ nPhase' = "done"
    /\ UNCHANGED nRec
    /\ UNCHANGED <<asyncVars, mergeVars, hookVars, concVars>>

---------------------------------------------------------------------------
(* proxyRequest for several requests at the same time *)

\* proxyRequest(req, res) for request r, up to its await: lookup is called
\* for every question of the request.
ConcProxy(r) ==
    /\ r \in 1..Len(cReq)
    /\ cPc[r] = "start"
    /\ cProm' = [cProm EXCEPT ![r] =
                    [i \in 1..Len(cReq[r].question) |-> NewLookup(upstream)]]
    /\ cLeaf' = [cLeaf EXCEPT ![r] =
                    [i \in 1..Len(cReq[r].question) |->
                        [n \in Leaves(upstream) |-> NewRequest]]]
    /\ cPc' = [cPc EXCEPT ![r] = "awaitMap"]
    /\ UNCHANGED <<cReq, cRes>>
    /\ UNCHANGED <<asyncVars, mergeVars, hookVars, normVars>>

ConcOpen(r, qi, n) ==
    /\ r \in 1..Len(cReq)
    /\ qi \in 1..Len(cLeaf[r])
    /\ n \in DOMAIN cLeaf[r][qi]
    /\ ~cLeaf[r][qi][n].ended

\* What a transport event of that request changes, given the outcome e of
\* the listeners it ran.
ConcDeliver(r, qi, e) ==
    /\ cLeaf' = [cLeaf EXCEPT ![r][qi] = e.leaf]
    /\ cProm' = [cProm EXCEPT ![r][qi] = e.prom]
    /\ UNCHANGED <<cReq, cRes, cPc>>
    /\ UNCHANGED <<asyncVars, mergeVars, hookVars, normVars>>

\* Server n answers question qi of request r: a message, then the end.
ConcAnswer(r, qi, n) ==
    /\ ConcOpen(r, qi, n)
    /\ LET e == OnMessage(upstream, cLeaf[r][qi], cProm[r][qi], n, FALSE, TRUE,
                          Reply(<<r, qi>>, n, 1, cReq[r].question[qi].name))
       IN ConcDeliver(r, qi, OnEnd(upstream, e.leaf, e.prom, n))

\* Server n reports an error for it.
ConcFail(r, qi, n) ==
    /\ ConcOpen(r, qi, n)
    /\ LET e == OnMessage(upstream, cLeaf[r][qi], cProm[r][qi], n, TRUE, FALSE,
                          NoSections)
       IN ConcDeliver(r, qi, OnEnd(upstream, e.leaf, e.prom, n))

\* The results of the lookups of request r, and with them the result a
\* lookup of another request has brought so far.
ConcResults_all(r) ==
    [i \in 1..Len(cProm[r]) |-> cProm[r][i][Root].val] \o
    (LET others == {x \in 1..Len(cProm) :
                        /\ x # r
                        /\ Len(cProm[x]) > 0
                        /\ cProm[x][1][Root].st = "fulfilled"}
     IN IF others = {} THEN <<>>
        ELSE <<cProm[CHOOSE x \in others : TRUE][1][Root].val>>)

\* The array Promise.map(req.question, lookup) fulfils with for request r.
ConcResults(r) == [i \in 1..Len(cProm[r]) |-> cProm[r][i][Root].val]

\* proxyRequest of request r resumes and merges into the response of r.
ConcResolve(r) ==
    /\ r \in 1..Len(cReq)
    /\ cPc[r] = "awaitMap"
    /\ \A i \in 1..Len(cProm[r]) : cProm[r][i][Root].st = "fulfilled"
    /\ cRes' = [cRes EXCEPT ![r] = mergeAnswer(@, <<Many(ConcResults(r))>>)]
    /\ cPc' = [cPc EXCEPT ![r] = "proxied"]
    /\ UNCHANGED <<cReq, cLeaf, cProm>>
    /\ UNCHANGED <<asyncVars, mergeVars, hookVars, normVars>>

\* Promise.map rejected: proxyRequest of request r throws.
ConcReject(r) ==
    /\ r \in 1..Len(cReq)
    /\ cPc[r] = "awaitMap"
    /\ \E i \in 1..Len(cProm[r]) : cProm[r][i][Root].st = "rejected"
    /\ cPc' = [cPc EXCEPT ![r] = "proxyFailed"]
    /\ UNCHANGED <<cReq, cRes, cLeaf, cProm>>
    /\ UNCHANGED <<asyncVars, mergeVars, hookVars, normVars>>

---------------------------------------------------------------------------
(* Specifications *)

\* alias(fake, real) as configured.
AliasBindings == { <<(<<"a">>), (<<"b">>)>>, <<(<<"b", "a">>), (<<"b">>)>> }

Questions ==
    { [name |-> nm, type |-> QTYPE_A, class |-> c] :
        nm \in {<<"a", "a">>, <<"b", "a">>, <<"b">>}, c \in {QCLASS_IN} }
    \cup { [name |-> <<"b", "a">>, type |-> QTYPE_A, class |-> QCLASS_CH] }

Requests == SeqsUpTo(Questions, MaxQuestions) \ {<<>>}

\* The upstream option of the served instance: one server, a racing pair,
\* or the default empty array.
ServedTopologies ==
    { Tree(<<0>>, <<TRUE>>), Tree(<<0>>, <<FALSE>>),
      Tree(<<0, 1, 1>>, <<FALSE, TRUE, TRUE>>) }

IdleMerge ==
    /\ mTarget = NoSections
    /\ mSrc = <<>>
    /\ mSplit = 0
    /\ mOut = NoSections
    /\ mTwo = NoSections
    /\ mPhase = "idle"

IdleHook ==
    /\ hPred = Fn("never")
    /\ hReq = [question |-> <<>>]
    /\ hooks = <<>>
    /\ hErr = NoError
    /\ hOut = FALSE
    /\ hPhase = "idle"

IdleNorm ==
    /\ nRec = <<>>
    /\ nOut = "none"
    /\ nPhase = "idle"

IdleConc ==
    /\ cReq = <<>>
    /\ cRes = <<>>
    /\ cLeaf = <<>>
    /\ cProm = <<>>
    /\ cPc = <<>>

IdleAsync ==
    /\ fake = <<>>
    /\ real = <<>>
    /\ upstream = Tree(<<0>>, <<FALSE>>)
    /\ question0 = <<>>
    /\ resQuestion = <<>>
    /\ req = [question |-> <<>>]
    /\ res = NoSections
    /\ wire = <<>>
    /\ pc = "idle"
    /\ leaf = <<>>
    /\ prom = <<>>
    /\ doneOrder = <<>>
    /\ endOrder = <<>>

\* A request arrives at an instance with one alias registered.
Init ==
    /\ \E b \in AliasBindings : fake = b[1] /\ real = b[2]
    /\ upstream \in ServedTopologies
    /\ question0 \in Requests
    /\ Len(question0) * Cardinality(Leaves(upstream)) <= MaxInFlight
    /\ req = [question |-> question0]
    /\ resQuestion = question0
    /\ res = Packet(<<>>, <<>>, <<>>)
    /\ wire = <<>>
    /\ pc = "start"
    /\ leaf = <<>>
    /\ prom = <<>>
    /\ doneOrder = <<>>
    /\ endOrder = <<>>
    /\ IdleMerge
    /\ IdleHook
    /\ IdleNorm
    /\ IdleConc

Next ==
    \/ AliasHandle
    \/ NoMatch
    \/ \E qi \in 1..MaxQuestions, n \in 1..MaxNodes : LeafAnswer(qi, n)
    \/ \E qi \in 1..MaxQuestions, n \in 1..MaxNodes : LeafFail(qi, n)
    \/ \E qi \in 1..MaxQuestions, n \in 1..MaxNodes : LeafSilent(qi, n)
    \/ ProxyResolve
    \/ ProxyReject
    \/ AliasSend
    \/ AliasThrow

Spec == Init /\ [][Next]_vars

\* lookup(question) called directly, for any topology, with the transport
\* events of every leaf request delivered one by one.
InitLookup ==
    /\ fake = <<>>
    /\ real = <<>>
    /\ upstream \in {t \in Topologies : WellFormed(t)}
    /\ question0 \in {<<q>> : q \in Questions}
    /\ req = [question |-> question0]
    /\ resQuestion = question0
    /\ res = NoSections
    /\ wire = <<>>
    /\ pc = "call"
    /\ leaf = <<>>
    /\ prom = <<>>
    /\ doneOrder = <<>>
    /\ endOrder = <<>>
    /\ IdleMerge
    /\ IdleHook
    /\ IdleNorm
    /\ IdleConc

NextLookup ==
    \/ Lookup
    \/ \E n \in 1..MaxNodes : LeafMessage(1, n)
    \/ \E n \in 1..MaxNodes : LeafError(1, n)
    \/ \E n \in 1..MaxNodes : LeafEnd(1, n)
    \/ \E n \in 1..MaxNodes : LeafTimeout(1, n)
    \/ LookupIntoResolve
    \/ LookupIntoReject

SpecLookup == InitLookup /\ [][NextLookup]_vars

\* mergeAnswer called directly.
InitMerge ==
    /\ IdleAsync
    /\ IdleHook
    /\ IdleNorm
    /\ IdleConc
    /\ mTarget \in Targets
    /\ mSrc \in SeqsUpTo(PartialResponses, MaxSources)
    /\ mSplit \in 0..Len(mSrc)
    /\ mOut = NoSections
    /\ mTwo = NoSections
    /\ mPhase = "args"

NextMerge == MergeCall \/ MergeInTwo

SpecMerge == InitMerge /\ [][NextMerge]_vars

\* hook called directly: the patterns and requests it is tried with.
NameA == <<"a">>
NameB == <<"b">>

GoodAtoms ==
    { Fn("always"), Fn("never"),
      Str(NameA),
      Re(reSuffix(NameA)),
      Obj([k \in {} |-> Num(0)]),
      Obj([name |-> Str(NameB)]),
      Obj([name |-> Str(NameA), class |-> Str(<<"c", "h">>)]),
      Obj([name |-> Re(reSuffix(NameA)), class |-> Str(<<>>)]),
      Obj([type |-> List(<<Num(QTYPE_NS), Str(<<"a">>)>>), class |-> Num(QCLASS_CH)]),
      Obj([name |-> List(<<Str(NameB), Re(reSuffix(NameA))>>),
           type |-> Str(<<"N", "s">>)]) }

BadAtoms ==
    { Obj([class |-> Str(<<"b", "b">>)]),
      Obj([name |-> Str(NameA), type |-> List(<<Num(QTYPE_A), Str(<<"b", "b">>)>>)]),
      Obj([class |-> Re(reSuffix(NameA))]) }

Atoms == GoodAtoms \cup BadAtoms

\* The patterns the lists of patterns are made of.
ListAtoms ==
    { Str(NameA),
      Obj([name |-> Str(NameA), class |-> Str(<<"c", "h">>)]),
      Obj([type |-> List(<<Num(QTYPE_NS), Str(<<"a">>)>>), class |-> Num(QCLASS_CH)]),
      Obj([class |-> Str(<<"b", "b">>)]) }

SideAtoms == { Fn("never"), Obj([name |-> Str(NameB)]) }

\* The lists of patterns nested d deep.
RECURSIVE Nested(_)
Nested(d) ==
    IF d <= 1 THEN {List(ps) : ps \in SeqsUpTo(ListAtoms, MaxListLen)}
    ELSE LET inner == Nested(d - 1)
         IN {List(<<p>>) : p \in inner}
            \cup {List(<<p, a>>) : p \in inner, a \in SideAtoms}
            \cup {List(<<a, p>>) : p \in inner, a \in SideAtoms}

Patterns == Atoms \cup UNION {Nested(d) : d \in 1..MaxDepth}

MatchQuestions ==
    { [name |-> NameA, type |-> QTYPE_A, class |-> QCLASS_IN],
      [name |-> NameA, type |-> QTYPE_NS, class |-> QCLASS_CH],
      [name |-> NameB, type |-> QTYPE_A, class |-> QCLASS_CH] }

InitMatch ==
    /\ IdleAsync
    /\ IdleMerge
    /\ IdleNorm
    /\ IdleConc
    /\ hPred \in Patterns
    /\ hReq \in {[question |-> qs] : qs \in SeqsUpTo(MatchQuestions, MaxQuestions)}
    /\ hooks = <<>>
    /\ hErr = NoError
    /\ hOut = FALSE
    /\ hPhase = "args"

NextMatch == Hook \/ Dispatch

SpecMatch == InitMatch /\ [][NextMatch]_vars

\* normRec called directly: the records it is tried with.  A field is
\* absent, a scalar, or a list of up to MaxAlts elements.
TypeScalars ==
    { Num(QTYPE_A), Str(<<"a">>), Str(<<"A">>),
      Str(<<"n", "s">>), Str(<<"n", "S">>), Str(<<"N", "s">>), Str(<<"N", "S">>),
      Str(<<"b", "b">>), Str(<<"n">>), Str(<<"1">>), Str(<<>>) }

TypeElems == { Num(QTYPE_NS), Str(<<"N", "s">>), Str(<<"b", "b">>) }

ClassScalars ==
    { Num(QCLASS_CH),
      Str(<<"i", "n">>), Str(<<"i", "N">>), Str(<<"I", "n">>), Str(<<"I", "N">>),
      Str(<<"c", "h">>), Str(<<"c", "H">>), Str(<<"C", "h">>), Str(<<"C", "H">>),
      Str(<<"a">>), Str(<<"i", "n", "n">>) }

ClassElems == { Str(<<"I", "n">>), Str(<<"c", "H">>), Str(<<"a">>) }

NameScalars == { Str(<<"i", "n">>), Str(<<"b", "b">>), Re(reSuffix(NameA)) }

NameElems == { Str(<<"i", "n">>), Re(reSuffix(NameA)) }

FieldValues(scalars, elems) ==
    scalars \cup {List(xs) : xs \in SeqsUpTo(elems, MaxAlts)}

Absent == [t |-> "absent"]

\* The record of the fields given (Absent: the record has no such field).
RecOf(n, ty, cl) ==
    LET all == [name |-> n, type |-> ty, class |-> cl]
    IN [k \in {f \in DOMAIN all : all[f] # Absent} |-> all[k]]

NormRecs ==
    { RecOf(n, ty, cl) :
        n \in {Absent} \cup FieldValues(NameScalars, NameElems),
        ty \in {Absent} \cup FieldValues(TypeScalars, TypeElems),
        cl \in {Absent} \cup FieldValues(ClassScalars, ClassElems) }

InitNorm ==
    /\ IdleAsync
    /\ IdleMerge
    /\ IdleHook
    /\ IdleConc
    /\ nRec \in NormRecs
    /\ nOut = "none"
    /\ nPhase = "args"

NextNorm == Normalize

SpecNorm == InitNorm /\ [][NextNorm]_vars

\* Several requests served at the same time by one instance.
RECURSIVE SumLen(_)
SumLen(rs) ==
    IF rs = <<>> THEN 0
    ELSE Len(rs[1].question) + SumLen(SubSeq(rs, 2, Len(rs)))

ConcQuestion == [name |-> NameA, type |-> QTYPE_A, class |-> QCLASS_IN]

ConcRequests ==
    {[question |-> [i \in 1..n |-> ConcQuestion]] : n \in 1..MaxQuestions}

InitConc ==
    /\ fake = <<>>
    /\ real = <<>>
    /\ upstream \in ServedTopologies
    /\ question0 = <<>>
    /\ resQuestion = <<>>
    /\ req = [question |-> <<>>]
    /\ res = NoSections
    /\ wire = <<>>
    /\ pc = "idle"
    /\ leaf = <<>>
    /\ prom = <<>>
    /\ doneOrder = <<>>
    /\ endOrder = <<>>
    /\ IdleMerge
    /\ IdleHook
    /\ IdleNorm
    /\ cReq \in SeqsUpTo(ConcRequests, MaxRequests) \ {<<>>}
    /\ SumLen(cReq) * Cardinality(Leaves(upstream)) <= MaxInFlight
    /\ cRes = [r \in 1..Len(cReq) |-> Packet(<<>>, <<>>, <<>>)]
    /\ cLeaf = [r \in 1..Len(cReq) |-> <<>>]
    /\ cProm = [r \in 1..Len(cReq) |-> <<>>]
    /\ cPc = [r \in 1..Len(cReq) |-> "start"]

NextConc ==
    \/ \E r \in 1..MaxRequests : ConcProxy(r)
    \/ \E r \in 1..MaxRequests, qi \in 1..MaxQuestions, n \in 1..MaxNodes :
            ConcAnswer(r, qi, n)
    \/ \E r \in 1..MaxRequests, qi \in 1..MaxQuestions, n \in 1..MaxNodes :
            ConcFail(r, qi, n)
    \/ \E r \in 1..MaxRequests : ConcResolve(r)
    \/ \E r \in 1..MaxRequests : ConcReject(r)

SpecConc == InitConc /\ [][NextConc]_vars

---------------------------------------------------------------------------
(* Properties *)

MaxNameLen == 3     \* length of the names the suffix round trip is tried on
MaxSuffixLen == 2   \* length of the suffixes it is tried with

Names(n) == SeqsUpTo(Chars, n)

HandlerOver == pc \in {"sent", "failed"}
HandlerRan == pc \notin {"start", "unmatched"}

\* C1: on every path of the alias handler res.send() is called exactly
\* once: never twice, and once the handler is over, also over a failed
\* upstream resolution, it has been called.
C1_SendsExactlyOnce ==
    /\ Len(wire) <= 1
    /\ HandlerOver => Len(wire) = 1

\* The question a record was obtained for (Reply puts it in the data).
QuestionOf(r) == r.data[1]

RecordsOf(i, k) ==
    IF k \in DOMAIN prom[i][Root].val THEN prom[i][Root].val[k] ELSE <<>>

\* C2: whatever order the lookups complete in, every section of the
\* response holds the records of the questions in question order, all of
\* Q1's before Q2's, and holds every record the lookups returned.
C2_MergedInQuestionOrder ==
    pc \in {"proxied", "sent"} =>
        \A k \in Sections :
            /\ \A x, y \in 1..Len(res[k]) :
                    x < y => QuestionOf(res[k][x]) <= QuestionOf(res[k][y])
            /\ \A i \in 1..Len(prom) : \A j \in 1..Len(RecordsOf(i, k)) :
                    \E x \in 1..Len(res[k]) :
                        res[k][x].data = RecordsOf(i, k)[j].data

\* Q2's lookup completed before Q1's and both brought records.
C2_Witness ==
    /\ pc = "proxied"
    /\ doneOrder = <<2, 1>>
    /\ Len(res["answer"]) = 2

\* The leaf server answered: a message without error, then the end.
Answered(qi, n) ==
    /\ leaf[qi][n].ended
    /\ leaf[qi][n].msgs > 0
    /\ ~leaf[qi][n].errd

\* The leaf server failed: it reported an error, or the request ended
\* without any message (the timeout).
ServerFailed(qi, n) ==
    \/ leaf[qi][n].errd
    \/ leaf[qi][n].ended /\ leaf[qi][n].msgs = 0

FirstAnswered(qi) ==
    endOrder[qi][Min({x \in 1..Len(endOrder[qi]) : Answered(qi, endOrder[qi][x])})]

\* C3: if a leaf answered successfully the lookup has succeeded with the
\* result of the first leaf that did, whatever the other leaves did and
\* when; the lookup fails only if every leaf failed or timed out.
C3_FirstSuccessWins ==
    pc = "lookup" =>
        /\ (\E n \in Leaves(upstream) : Answered(1, n)) =>
              /\ prom[1][Root].st = "fulfilled"
              /\ prom[1][Root].val = leaf[1][FirstAnswered(1)].res
        /\ prom[1][Root].st = "rejected" =>
              \A n \in Leaves(upstream) : ServerFailed(1, n)

\* C4: in a group topology where every leaf server has failed the lookup
\* has failed with an aggregate error, and it fails no earlier than the
\* last leaf.
C4_ExhaustionFails ==
    (pc = "lookup" /\ ~upstream.isLeaf[Root] /\ Leaves(upstream) # {}) =>
        /\ (\A n \in Leaves(upstream) : ServerFailed(1, n)) =>
              /\ prom[1][Root].st = "rejected"
              /\ prom[1][Root].err = "aggregate"
        /\ prom[1][Root].st = "rejected" =>
              \A n \in Leaves(upstream) : ServerFailed(1, n)

\* C5: a leaf request that ended without any message (timeout), or that
\* reported an error, has failed; it has not succeeded with an empty
\* partial response.
C5_SilentLeafFails ==
    pc = "lookup" =>
        \A n \in Leaves(upstream) :
            (leaf[1][n].ended /\ ServerFailed(1, n)) =>
                prom[1][n].st = "rejected"

\* C6: no record name of a response the alias handler sent ends with the
\* real suffix, in any section.
C6_NoRealNameSent ==
    \A w \in 1..Len(wire) : \A k \in DOMAIN wire[w] :
        \A j \in 1..Len(wire[w][k]) : ~EndsWith(wire[w][k][j].name, real)

CutSuffix(s, suff) == SubSeq(s, 1, Len(s) - Len(suff))

\* C7: a question named p+fake is asked upstream as p+real; every answer
\* record that upstream named p+real is sent as p+fake, so the answers to
\* a question named p+fake are sent under that very name; and for every
\* name ending with fake, fake -> real then real -> fake restores it.
C7_AliasRoundTrip ==
    /\ HandlerRan =>
          \A i \in 1..Len(question0) :
              EndsWith(question0[i].name, fake) =>
                  req.question[i].name = CutSuffix(question0[i].name, fake) \o real
    /\ \A w \in 1..Len(wire) : \A j \in 1..Len(wire[w]["answer"]) :
          LET r == wire[w]["answer"][j]
              up == req.question[QuestionOf(r)].name
              orig == question0[QuestionOf(r)].name
          IN /\ EndsWith(up, real) => r.name = CutSuffix(up, real) \o fake
             /\ EndsWith(orig, fake) => r.name = orig
    /\ pc = "start" =>
          \A f, r \in Names(MaxSuffixLen) : \A nm \in Names(MaxNameLen) :
              EndsWith(nm, f) =>
                  Replace(Replace(nm, reSuffix(f), r), reSuffix(r), f) = nm

\* A question whose name holds fake twice was asked and answered.
C7_Witness ==
    /\ pc = "sent"
    /\ \E j \in 1..Len(wire[1]["answer"]) :
          /\ question0[QuestionOf(wire[1]["answer"][j])].name = <<"a", "a">>
          /\ fake = <<"a">>
          /\ wire[1]["answer"][j].name = <<"a", "a">>
          /\ req.question[QuestionOf(wire[1]["answer"][j])].name = <<"a", "b">>

\* C8 as stated: the handler is selected iff some question name of the
\* request ends with the fake suffix.
C8_SelectedIffSuffix ==
    /\ pc = "unmatched" =>
          ~\E i \in 1..Len(question0) : EndsWith(question0[i].name, fake)
    /\ HandlerRan =>
          \E i \in 1..Len(question0) : EndsWith(question0[i].name, fake)

\* C8, amended: the handler is selected iff some question of the request
\* has class IN and a name that ends with the fake suffix.
C8_SelectedIffInClassSuffix ==
    /\ pc = "unmatched" =>
          ~\E i \in 1..Len(question0) :
               /\ question0[i].class = QCLASS_IN
               /\ EndsWith(question0[i].name, fake)
    /\ HandlerRan =>
          \E i \in 1..Len(question0) :
               /\ question0[i].class = QCLASS_IN
               /\ EndsWith(question0[i].name, fake)

\* A request whose only fake-suffixed question has class CH was passed
\* over, next to a question of class IN that does not end with fake.
C8_Witness ==
    /\ pc = "unmatched"
    /\ \E i \in 1..Len(question0) :
          /\ question0[i].class = QCLASS_CH
          /\ EndsWith(question0[i].name, fake)
    /\ \E i \in 1..Len(question0) : question0[i].class = QCLASS_IN

SectionOf(r, k) == IF k \in DOMAIN r THEN r[k] ELSE <<>>

\* Section k of the responses rs, one after the other.
RECURSIVE Cat(_, _)
Cat(rs, k) ==
    IF rs = <<>> THEN <<>>
    ELSE Cat(SubSeq(rs, 1, Len(rs) - 1), k) \o SectionOf(rs[Len(rs)], k)

\* C9: after mergeAnswer(target, ...sources) every section of the target
\* is what it was, followed by that section of every source in source
\* order, however the sources are grouped into arrays; a section exists
\* afterwards iff the target or a source had it.
C9_MergeAppendsInOrder ==
    mPhase \in {"once", "twice"} =>
        \A k \in Sections :
            /\ k \in DOMAIN mOut <=>
                  (k \in DOMAIN mTarget \/ \E i \in 1..Len(mSrc) : k \in DOMAIN mSrc[i])
            /\ k \in DOMAIN mOut =>
                  mOut[k] = SectionOf(mTarget, k) \o Cat(mSrc, k)

\* Three sources, two of them in an array, sharing a record with each
\* other and with a target that already had records.
C9_Witness ==
    /\ mPhase = "once"
    /\ Len(mSrc) = 3
    /\ mSplit = 2
    /\ mTarget = Packet(<<Y>>, <<X>>, <<>>)
    /\ mOut["answer"] = <<Y, X, Y, X, X>>

EmptyTargets == {NoSections, Packet(<<>>, <<>>, <<>>)}

\* C10: merging r1..r[n-1] into an empty target and then rn into that
\* target leaves the same records in the same order, in every section,
\* as merging r1..rn in one call.
C10_MergeAssociative ==
    (mPhase = "twice" /\ mTarget \in EmptyTargets) => mTwo = mOut

\* [r1, r2] then r3, against [r1, r2, r3], with different records.
C10_Witness ==
    /\ mPhase = "twice"
    /\ mTarget = NoSections
    /\ Len(mSrc) = 3
    /\ mSplit = 3
    /\ "answer" \in DOMAIN mTwo
    /\ mTwo["answer"] = <<X, Y, X, X>>


\* What the symbols of the pattern fields stand for, written out in every
\* letter case.
SymbolCodes ==
    [type |->
        [s \in {<<"a">>, <<"A">>} |-> QTYPE_A] @@
        [s \in {<<"n", "s">>, <<"n", "S">>, <<"N", "s">>, <<"N", "S">>} |-> QTYPE_NS],
     class |->
        [s \in {<<"i", "n">>, <<"i", "N">>, <<"I", "n">>, <<"I", "N">>} |-> QCLASS_IN] @@
        [s \in {<<"c", "h">>, <<"c", "H">>, <<"C", "h">>, <<"C", "H">>} |-> QCLASS_CH]]

\* One alternative of a pattern field matches the question's value: a
\* number or a name by equality, a symbol by its code, a regular
\* expression when the name ends with its suffix.
AltMatches(q, k, alt) ==
    CASE alt.t = "num" -> k # "name" /\ q[k] = alt.v
      [] alt.t = "str" ->
            IF k = "name" THEN q[k] = alt.v
            ELSE alt.v \in DOMAIN SymbolCodes[k] /\ q[k] = SymbolCodes[k][alt.v]
      [] OTHER -> k = "name" /\ EndsWith(q[k], alt.re.lit)

FieldMatches(q, k, v) ==
    IF v.t = "list" THEN \E i \in 1..Len(v.items) : AltMatches(q, k, v.items[i])
    ELSE AltMatches(q, k, v)

RECURSIVE PatternMatches(_, _)
PatternMatches(p, request) ==
    CASE p.t = "fn" -> p.fn = "always"
      [] p.t = "list" -> \E i \in 1..Len(p.items) : PatternMatches(p.items[i], request)
      [] p.t = "obj" ->
            \E i \in 1..Len(request.question) :
                \A k \in DOMAIN p.rec : FieldMatches(request.question[i], k, p.rec[k])
      [] OTHER ->
            \E i \in 1..Len(request.question) :
                /\ request.question[i].class = QCLASS_IN
                /\ FieldMatches(request.question[i], "name", p)

\* C11: the matcher compiled from a list of patterns is true exactly when
\* one of the sub-patterns matches, and the matcher compiled from a
\* field-object exactly when some one question matches every field of the
\* pattern: by equality with a scalar, by the regular expression, or by
\* any one alternative of a list value.
C11_MatcherOrAndLaws ==
    hPhase = "matched" => (hOut <=> PatternMatches(hPred, hReq))

\* Every field of a two-field pattern is matched by some question.
EachFieldSomewhere(p, request) ==
    /\ p.t = "obj"
    /\ Cardinality(DOMAIN p.rec) = 2
    /\ \A k \in DOMAIN p.rec : \E i \in 1..Len(request.question) :
            FieldMatches(request.question[i], k, p.rec[k])

\* A list of two field-objects: the first one fails although each of its
\* fields is matched by some question (no question matches both), the
\* second one matches through an alternative of a list value.
C11_Witness ==
    /\ hPhase = "matched"
    /\ hOut
    /\ hPred.t = "list"
    /\ Len(hPred.items) = 2
    /\ EachFieldSomewhere(hPred.items[1], hReq)
    /\ ~PatternMatches(hPred.items[1], hReq)
    /\ hPred.items[2].t = "obj"
    /\ \E k \in DOMAIN hPred.items[2].rec : hPred.items[2].rec[k].t = "list"
    /\ PatternMatches(hPred.items[2], hReq)


\* The elements of field k of the record handed to normRec.
ElemsOf(k) == IF nRec[k].t = "list" THEN nRec[k].items ELSE <<nRec[k]>>

LookupFields == {"type", "class"}

\* Already numeric: a number, or a string JavaScript coerces to a number
\* (digits only; the empty string coerces to 0).
Numeric(e) ==
    \/ e.t = "num"
    \/ e.t = "str" /\ \A i \in 1..Len(e.v) : \E d \in 1..10 : DigitChars[d] = e.v[i]

Symbolic(k, e) == k \in LookupFields /\ e.t = "str" /\ ~Numeric(e)

\* The symbolic elements of the record that stand for nothing.
UnknownSymbols ==
    UNION {{<<k, ElemsOf(k)[i]>> : i \in {j \in 1..Len(ElemsOf(k)) :
                    /\ Symbolic(k, ElemsOf(k)[j])
                    /\ ElemsOf(k)[j].v \notin DOMAIN SymbolCodes[k]}} :
            k \in DOMAIN nRec}

\* C12: in the fields type and class a symbol becomes its numeric code in
\* whatever letter case it is written; a symbol that stands for nothing
\* makes normRec throw an error naming the field and the value; numeric
\* values, and the values of every other field, come out unchanged; the
\* elements of a list value are normalized one by one.
C12_Normalization ==
    nPhase = "done" =>
        IF UnknownSymbols # {}
        THEN /\ ~nOut.ok
             /\ nOut.kind = "unknown"
             /\ <<nOut.key, nOut.val>> \in UnknownSymbols
        ELSE /\ nOut.ok
             /\ DOMAIN nOut.rec = DOMAIN nRec
             /\ \A k \in DOMAIN nRec :
                    /\ Len(nOut.rec[k]) = Len(ElemsOf(k))
                    /\ \A i \in 1..Len(ElemsOf(k)) :
                        nOut.rec[k][i] =
                            IF Symbolic(k, ElemsOf(k)[i])
                            THEN Num(SymbolCodes[k][ElemsOf(k)[i].v])
                            ELSE ElemsOf(k)[i]

\* A list value with a symbol written in mixed case next to another
\* element, normalized element by element, beside a name that looks like
\* a symbol and is left alone.
C12_Witness ==
    /\ nPhase = "done"
    /\ nOut.ok
    /\ "name" \in DOMAIN nRec /\ nRec["name"] = Str(<<"i", "n">>)
    /\ "class" \in DOMAIN nRec /\ nRec["class"] = List(<<Str(<<"I", "n">>), Str(<<"c", "H">>)>>)
    /\ nOut.rec["class"] = <<Num(QCLASS_IN), Num(QCLASS_CH)>>
    /\ nOut.rec["name"] = <<Str(<<"i", "n">>)>>


\* The unknown type/class symbols of a field-object pattern.
UnknownIn(rec) ==
    UNION {{<<k, castArray(rec[k])[i]>> : i \in {j \in 1..Len(castArray(rec[k])) :
                    /\ Symbolic(k, castArray(rec[k])[j])
                    /\ castArray(rec[k])[j].v \notin DOMAIN SymbolCodes[k]}} :
            k \in DOMAIN rec}

\* The unknown type/class symbols of a pattern, at any depth.
RECURSIVE UnknownAnywhere(_)
UnknownAnywhere(p) ==
    CASE p.t = "list" -> UNION {UnknownAnywhere(p.items[i]) : i \in 1..Len(p.items)}
      [] p.t = "obj" -> UnknownIn(p.rec)
      [] OTHER -> {}

\* Nothing in a registered matcher is left to be looked up.
RECURSIVE Normalized(_)
Normalized(m) ==
    CASE m.t = "some" -> \A i \in 1..Len(m.preds) : Normalized(m.preds[i])
      [] m.t = "obj" -> \A k \in DOMAIN m.rec : \A i \in 1..Len(m.rec[k]) :
                            ~Symbolic(k, m.rec[k][i])
      [] OTHER -> TRUE

\* C13: hook with a pattern holding an unknown type/class symbol, however
\* deep in lists of patterns, throws the unknown-symbol error at the call
\* and registers nothing; a matcher that was registered holds no symbol
\* any more, so applying it to a request looks nothing up and cannot
\* throw that error.
C13_EagerErrors ==
    /\ (hPhase \in {"hooked", "threw", "matched"} /\ UnknownAnywhere(hPred) # {}) =>
            /\ hPhase = "threw"
            /\ hooks = <<>>
            /\ hErr # NoError
            /\ hErr.kind = "unknown"
            /\ <<hErr.key, hErr.val>> \in UnknownAnywhere(hPred)
    /\ \A i \in 1..Len(hooks) : hooks[i].ok /\ Normalized(hooks[i])
    /\ hPhase = "matched" => hOut \in BOOLEAN

\* hook threw on an unknown symbol two lists deep, after a sub-pattern
\* that compiles.
C13_Witness ==
    /\ hPhase = "threw"
    /\ hooks = <<>>
    /\ hPred.t = "list"
    /\ Len(hPred.items) = 2
    /\ UnknownAnywhere(hPred.items[1]) = {}
    /\ hPred.items[2].t = "list"
    /\ UnknownAnywhere(hPred.items[2]) # {}


\* Lookups of the request that have not settled yet.
PendingLookups(P) == {i \in 1..Len(P) : P[i][Root].st = "pending"}

ProxyOver == pc \in {"proxied", "proxyFailed", "sent", "failed"}

\* C14 as claimed: proxyRequest is not over, and the response not
\* modified, before the lookup of every question has settled.
C14_CompletesAfterAll ==
    /\ ProxyOver => PendingLookups(prom) = {}
    /\ pc = "awaitMap" => \A k \in Sections : res[k] = <<>>

\* C14: while the lookup of some question has not settled no step modifies
\* the response and proxyRequest does not return; it returns only when
\* every lookup has succeeded, whatever order they settled in.  (It may
\* throw as soon as one lookup has failed.)
C14_ReturnsAfterAll ==
    [][ /\ PendingLookups(prom') # {} =>
            /\ res' = res
            /\ pc' \notin {"proxied", "sent"}
        /\ pc' \in {"proxied", "sent"} =>
            \A i \in 1..Len(prom') : prom'[i][Root].st = "fulfilled"
        /\ pc' \in {"proxyFailed", "failed"} =>
            \E i \in 1..Len(prom') : prom'[i][Root].st = "rejected" ]_vars

\* The second question's lookup has brought records, the first one's is
\* still pending: proxyRequest waits and the response is untouched.
C14_Witness ==
    /\ pc = "awaitMap"
    /\ Len(prom) = 2
    /\ prom[1][Root].st = "pending"
    /\ prom[2][Root].st = "fulfilled"
    /\ "answer" \in DOMAIN prom[2][Root].val
    /\ res["answer"] = <<>>


\* C15: once the lookup has returned a result, no later event of another
\* branch changes the promise, the result object (the response object of
\* the leaf that won) or the response the result was merged into.
C15_LosersChangeNothing ==
    [][ (Len(prom) > 0 /\ prom[1][Root].st = "fulfilled") =>
            /\ prom'[1][Root] = prom[1][Root]
            /\ \E w \in DOMAIN leaf[1] :
                    /\ leaf[1][w].ended
                    /\ prom[1][w].st = "fulfilled"
                    /\ leaf[1][w].res = prom[1][Root].val
                    /\ leaf'[1][w] = leaf[1][w]
            /\ pc = "merged" => res' = res ]_vars

\* The result of the first leaf was merged into the response; the other
\* leaf has had a message, an error message and its end.
C15_Witness ==
    /\ pc = "merged"
    /\ Len(endOrder[1]) = 2
    /\ prom[1][Root].st = "fulfilled"
    /\ prom[1][Root].val = leaf[1][endOrder[1][1]].res
    /\ "answer" \in DOMAIN res /\ res["answer"] = prom[1][Root].val["answer"]
    /\ leaf[1][endOrder[1][2]].errd
    /\ leaf[1][endOrder[1][2]].msgs = 2
    /\ leaf[1][endOrder[1][2]].res # leaf[1][endOrder[1][1]].res


\* C16: from the call of lookup on, every leaf of the topology has been
\* sent one request (all of them before any reply is handled) and none
\* is sent another one, whatever the leaves reply or fail to reply.
C16_OneRequestPerLeaf ==
    pc \in {"lookup", "merged", "lookupFailed"} =>
        /\ DOMAIN leaf[1] = Leaves(upstream)
        /\ \A n \in Leaves(upstream) : leaf[1][n].sends = 1

\* One leaf has reported an error and another has timed out.
C16_Witness ==
    /\ pc = "lookup"
    /\ \E n, m \in Leaves(upstream) :
            /\ leaf[1][n].errd /\ leaf[1][n].ended /\ leaf[1][n].sends = 1
            /\ leaf[1][m].ended /\ leaf[1][m].msgs = 0 /\ leaf[1][m].sends = 1


\* The question each record of a section was obtained for.
AskedFor(recs) == [x \in 1..Len(recs) |-> recs[x].data[1]]

\* Response cres of request r, whose proxyRequest is at cpc, holds nothing
\* before proxyRequest has returned and then, in every section, one
\* record for each question of r, in question order, and no other record.
OwnRecordsOnly(r, cres, cpc) ==
    \A k \in Sections :
        AskedFor(cres[k]) =
            IF cpc = "proxied"
            THEN [i \in 1..Len(cReq[r].question) |-> <<r, i>>]
            ELSE <<>>

\* C17: with requests served at the same time and their replies coming in
\* in any order, no step changes the topology, and after every step the
\* response of each request holds the records obtained for its own
\* questions and nothing obtained for another request.
C17_RequestsIsolated ==
    [][ /\ upstream' = upstream
        /\ cReq' = cReq
        /\ \A r \in 1..Len(cReq) : OwnRecordsOnly(r, cRes'[r], cPc'[r]) ]_vars

\* The first request has its records; the second one's lookup has brought
\* its result, which is not merged anywhere yet.
C17_Witness ==
    /\ Len(cReq) = 2
    /\ cPc = <<"proxied", "awaitMap">>
    /\ Len(cRes[1]["answer"]) = Len(cReq[1].question)
    /\ Len(cProm[2]) > 0
    /\ cProm[2][1][Root].st = "fulfilled"
    /\ cRes[2]["answer"] = <<>>


\* The numbers of the messages the records of a section came with.
MessageOf(recs) == [x \in 1..Len(recs) |-> recs[x].data[3]]

\* The partial response of a leaf holds, in every section it has, the
\* records of its messages in arrival order: of all of them when none
\* was an error (an error message may come without a packet).
InArrivalOrder(lf) ==
    /\ lf.msgs > 0 /\ ~lf.errd => DOMAIN lf.res = Sections
    /\ \A k \in DOMAIN lf.res :
            /\ \A x, y \in 1..Len(lf.res[k]) :
                    x < y => MessageOf(lf.res[k])[x] < MessageOf(lf.res[k])[y]
            /\ \A x \in 1..Len(lf.res[k]) : MessageOf(lf.res[k])[x] \in 1..lf.msgs
            /\ ~lf.errd => MessageOf(lf.res[k]) = [x \in 1..lf.msgs |-> x]

\* C18: after every step the partial response of each leaf holds the
\* records of the messages it got, in arrival order; a leaf that got an
\* error message is rejected; and a leaf promise that has settled is never
\* settled again, so an end after an error does not fulfil it.
C18_LeafAccumulatesSettlesOnce ==
    [][ \A n \in DOMAIN leaf'[1] :
            /\ InArrivalOrder(leaf'[1][n])
            /\ leaf'[1][n].errd => prom'[1][n].st = "rejected"
            /\ (Len(prom) > 0 /\ prom[1][n].st # "pending") =>
                    prom'[1][n] = prom[1][n] ]_vars

\* A leaf got a message, then an error message with a packet, then its
\* end: it holds the records of both and is rejected.
C18_Witness ==
    /\ Len(leaf) > 0
    /\ \E n \in DOMAIN leaf[1] :
            /\ leaf[1][n].msgs = 2
            /\ leaf[1][n].errd
            /\ leaf[1][n].ended
            /\ prom[1][n].st = "rejected"
            /\ "answer" \in DOMAIN leaf[1][n].res
            /\ MessageOf(leaf[1][n].res["answer"]) = <<1, 2>>


\* C19: when the lookup of a question has failed proxyRequest does not
\* return but throws, and neither the call, nor the wait, nor the failure
\* changes any section of the response: what the other lookups brought is
\* not merged in.
C19_AllOrNothing ==
    [][ /\ pc' \in {"awaitMap", "proxyFailed", "failed"} => res' = res
        /\ (pc = "awaitMap" /\ MapRejected) => pc' \in {"awaitMap", "proxyFailed"} ]_vars

\* proxyRequest has failed on the second question; the lookup of the first
\* one had brought records, and the response has none.
C19_Witness ==
    /\ pc = "proxyFailed"
    /\ Len(prom) = 2
    /\ prom[1][Root].st = "fulfilled"
    /\ "answer" \in DOMAIN prom[1][Root].val
    /\ Len(prom[1][Root].val["answer"]) > 0
    /\ prom[2][Root].st = "rejected"
    /\ \A k \in Sections : res[k] = <<>>


\* C20: the handler leaves the question records it was given as they
\* were: after it has run, res.question, which shares them, still shows
\* the names the client asked for, while req.question is a list of other
\* records with the real names.
C20_OriginalQuestionsKept ==
    /\ resQuestion = question0
    /\ HandlerRan =>
          /\ Len(req.question) = Len(question0)
          /\ \A i \in 1..Len(question0) :
                EndsWith(question0[i].name, fake) =>
                    /\ EndsWith(resQuestion[i].name, fake)
                    /\ req.question[i].name = CutSuffix(question0[i].name, fake) \o real
                    /\ req.question[i].name # resQuestion[i].name

\* The handler has run on a request with two questions under the alias.
C20_Witness ==
    /\ HandlerRan
    /\ Len(question0) = 2
    /\ \A i \in 1..2 :
            /\ EndsWith(resQuestion[i].name, fake)
            /\ EndsWith(req.question[i].name, real)
            /\ req.question[i].name # resQuestion[i].name

=============================================================================
